---- MODULE Spec2Model ----
(***************************************************************************)
(* The release build-and-upload pipeline of src/tasks/buildAndUpload.ts,   *)
(* with the naming helpers and the publish handler of src/params.ts.       *)
(* Spec runs buildAndUpload on its own, SpecUpstream the same over the     *)
(* upstream-version sources, SpecPublish one call of publishHanlder with   *)
(* buildAndUpload nested in its second task.                               *)
(*                                                                         *)
(* Strings are sequences of one-character strings, so that getArchTag,     *)
(* getImagePath, path.join and the uppercase test compute on characters.   *)
(* The build directory is a map from path to file content; readdirSync     *)
(* gives back the bare names under the directory, as in the code.          *)
(*                                                                         *)
(* The runs modelled have a package directory with a valid avatar file     *)
(* (getAssetPathRequired and verifyAvatar do not throw) and skipSave       *)
(* unset, as in the publish command, which passes neither skipSave nor     *)
(* skipUpload. The container builder, the two stores, the record store and *)
(* the compose helpers are imported from files outside src/ and follow     *)
(* the interfaces the specification gives them.                            *)
(***************************************************************************)
EXTENDS Integers, Sequences, FiniteSets, TLC

(* ------------------------------ bounds ------------------------------- *)

\* Number of consecutive runs of the task list on the same package directory.
MaxRuns == 2

(* ------------------------------ strings ------------------------------ *)

UpperCase == {"A", "B", "C", "D", "E", "F", "G", "H", "I", "J", "K", "L", "M",
              "N", "O", "P", "Q", "R", "S", "T", "U", "V", "W", "X", "Y", "Z"}

\* /[A-Z]/.test(name)
hasUpperCase(name) == \E i \in 1..Len(name) : name[i] \in UpperCase

EndsWith(s, suffix) ==
    /\ Len(s) >= Len(suffix)
    /\ SubSeq(s, Len(s) - Len(suffix) + 1, Len(s)) = suffix

StartsWith(s, prefix) ==
    /\ Len(s) >= Len(prefix)
    /\ SubSeq(s, 1, Len(prefix)) = prefix

\* type Architecture = "linux/amd64" | "linux/arm64"
linuxAmd64 == <<"l", "i", "n", "u", "x", "/", "a", "m", "d", "6", "4">>
linuxArm64 == <<"l", "i", "n", "u", "x", "/", "a", "r", "m", "6", "4">>
Architectures == {linuxAmd64, linuxArm64}

\* arch.replace(/\//g, "-")
getArchTag(arch) == [i \in 1..Len(arch) |-> IF arch[i] = "/" THEN "-" ELSE arch[i]]

\* `${name}_${version}_${getArchTag(arch)}.txz`
getImagePath(name, version, arch) ==
    name \o <<"_">> \o version \o <<"_">> \o getArchTag(arch) \o <<".", "t", "x", "z">>

\* `${name}_${version}.tar.xz`
getLegacyImagePath(name, version) ==
    name \o <<"_">> \o version \o <<".", "t", "a", "r", ".", "x", "z">>

\* path.join(a, b): a "." or empty first segment is normalised away.
pathJoin(a, b) == IF a = <<>> \/ a = <<".">> THEN b ELSE a \o <<"/">> \o b

\* An image archive is a file with one of the two archive extensions.
IsImageArchive(f) ==
    \/ EndsWith(f, <<".", "t", "x", "z">>)
    \/ EndsWith(f, <<".", "t", "a", "r", ".", "x", "z">>)

(* --------------------------- release assets -------------------------- *)

\* releaseFiles.avatar.defaultName, compose.defaultName, manifest.defaultName
avatarName == <<"a", "v", "a", "t", "a", "r", ".", "p", "n", "g">>
composeName == <<"d", "o", "c", "k", "e", "r", "-", "c", "o", "m", "p", "o", "s", "e", ".", "y", "m", "l">>
manifestName == <<"d", "a", "p", "p", "n", "o", "d", "e", "_", "p", "a", "c", "k", "a", "g", "e", ".", "j", "s", "o", "n">>

\* The optional release files copied by 'Copy files and validate', in order.
additionalFiles ==
    << <<"s", "e", "t", "u", "p", "-", "w", "i", "z", "a", "r", "d", ".", "j", "s", "o", "n">>,
       <<"s", "e", "t", "u", "p", ".", "s", "c", "h", "e", "m", "a", ".", "j", "s", "o", "n">>,
       <<"s", "e", "t", "u", "p", "-", "t", "a", "r", "g", "e", "t", ".", "j", "s", "o", "n">>,
       <<"s", "e", "t", "u", "p", "-", "u", "i", ".", "j", "s", "o", "n">>,
       <<"d", "i", "s", "c", "l", "a", "i", "m", "e", "r", ".", "m", "d">>,
       <<"g", "e", "t", "t", "i", "n", "g", "-", "s", "t", "a", "r", "t", "e", "d", ".", "m", "d">> >>

(* ------------------------------ inputs ------------------------------- *)

Names == { <<"f", "o", "o">>, <<"F", "o", "o">>, <<"f", "o", "O">> }
Version == <<"1", ".", "0", ".", "0">>
OldVersion == <<"0", ".", "9", ".", "0">>

\* publish: path.join(dir, `build_${nextVersion}`), relative to the package dir.
buildDir == <<"b", "u", "i", "l", "d", "_">> \o Version

ipfsProvider == <<"ipfs-provider">>
swarmProvider == <<"swarm-provider">>

\* Duplicate-free architecture lists, in declared order.
ArchLists ==
    { <<>>, <<linuxAmd64>>, <<linuxArm64>>,
      <<linuxAmd64, linuxArm64>>, <<linuxArm64, linuxAmd64>> }

\* Which optional release assets the package directory holds: none, the
\* setup wizard alone, the setup schema with the disclaimer, or all six.
RootAssetSets == { {}, {1}, {2, 5}, 1..Len(additionalFiles) }

\* File contents. A file left by something before the first run is Prev.
Prev == <<"prev">>
ImageOf(arch) == <<"image">> \o arch
AvatarContent == <<"avatar">>
AssetContent(i) == <<"asset">> \o additionalFiles[i]

Unset == <<>>

\* The upstream versions a package may carry: in its compose, in the
\* environment, in the manifest as loaded. Unset stands for undefined and for
\* the empty string, the two values that `||` and `if` treat as absent.
ComposeUpstream == <<"2", ".", "0">>
EnvUpstream == <<"3", ".", "0">>
LoadedUpstream == <<"1", ".", "0">>

(* ------------------------------- state ------------------------------- *)

VARIABLES
    manifest,        \* readManifest(dir): name, version, image, avatar, architectures,
                     \* upstreamVersion
    env,             \* process.env.UPSTREAM_VERSION
    rootAssets,      \* which of additionalFiles exist in the package directory
    composeOnDisk,   \* the docker-compose.yml of the package directory
    uploadToSwarm,   \* option
    skipUpload,      \* option
    files,           \* the build directory: path -> content
    buildDirExists,  \* whether the build directory exists
    releaseRecord,   \* the release record store of the package directory: version -> <<hash, to>>
    pc,              \* "new", "running", "done", "failed"
    pos,             \* index in the task list of the next task
    error,           \* the error the run ended with
    composeForDev,   \* readCompose(dir) as captured when the task list is built
    ctx,             \* the Listr context: releaseHash, releaseMultiHash
    run,             \* number of the current run
    trace,           \* this run's task events, in order
    calls,           \* this run's calls to the external collaborators, in order
    startFiles,      \* the build directory when this run began
    uploadStartFiles,\* the build directory when this run's upload task began
    prev,            \* how the previous run ended: outcome, files, ctx
    type,            \* publish: the release type, after the environment defaults
    ethConnected,    \* publish: whether verifyEthConnection(ethProvider) succeeds
    apmLookup,       \* publish: what increaseFromApmVersion answers
    githubRelease,   \* publish: option
    createNextGithubBranch, \* publish: option
    publishPc,       \* publish: "idle", "new", "running", "done", "failed"
    publishPos,      \* publish: index in publishTasks of the next task
    publishError,    \* publish: the error publishHanlder rejected with
    publishCtx,      \* publish: ctx.nextVersion, ctx.buildDir
    publishTrace,    \* publish: task events, in order
    publishCalls     \* publish: calls to generatePublishTx, createGithubRelease, createNextBranch

buildVars == <<manifest, env, rootAssets, composeOnDisk, uploadToSwarm, skipUpload, files,
               buildDirExists, releaseRecord, pc, pos, error, composeForDev, ctx, run,
               trace, calls, startFiles, uploadStartFiles, prev>>

publishVars == <<type, ethConnected, apmLookup, githubRelease, createNextGithubBranch,
                 publishPc, publishPos, publishError, publishCtx, publishTrace,
                 publishCalls>>

vars == <<buildVars, publishVars>>

config == <<manifest, env, rootAssets, uploadToSwarm, skipUpload>>

(* ------------------------- filesystem helpers ------------------------ *)

\* fs.readdirSync(buildDir): the bare names of the entries under buildDir.
readdirSync(fs) ==
    { SubSeq(p, Len(buildDir) + 2, Len(p)) :
        p \in { q \in DOMAIN fs : StartsWith(q, buildDir \o <<"/">>) } }

\* fs.unlinkSync for each path of a set
unlinkAll(fs, paths) == [p \in (DOMAIN fs) \ paths |-> fs[p]]

\* fs.copyFileSync / writeFile: create or overwrite
writeFile(fs, p, content) ==
    [q \in (DOMAIN fs) \cup {p} |-> IF q = p THEN content ELSE fs[q]]

existsSync(fs, p) == p \in DOMAIN fs

ImageArchives(fs) == { f \in readdirSync(fs) : IsImageArchive(f) }

(* ----------------------- buildAndUpload: set-up ---------------------- *)

\* manifest.architectures && parseArchitectures(manifest.architectures)
architectures == manifest.architectures
declared == manifest.hasArchitectures

imagePathAmd == pathJoin(buildDir, getImagePath(manifest.name, manifest.version, linuxAmd64))
imagePathLegacy == pathJoin(buildDir, getLegacyImagePath(manifest.name, manifest.version))
avatarBuildPath == pathJoin(buildDir, avatarName)

\* ConfigError with the manifest.avatar check left out.
ConfigError_noAvatar ==
    \/ manifest.image
    \/ hasUpperCase(manifest.name)

\* The three fail-fast checks made before the task list is returned.
ConfigError ==
    \/ manifest.image
    \/ manifest.avatar
    \/ hasUpperCase(manifest.name)

\* updateComposeImageTags(compose, manifest, {editExternalImages})
updateComposeImageTags(compose, editExternalImages) ==
    <<"compose", "build", IF editExternalImages THEN "pinned" ELSE compose[3], compose[4]>>

composeForBuild == updateComposeImageTags(composeForDev, FALSE)
\* composeForRelease with the release variant never derived.
composeForRelease_dev == composeForDev

composeForRelease == updateComposeImageTags(composeForDev, TRUE)

\* parseComposeUpstreamVersion(compose): the upstream version the compose
\* declares, or nothing.
parseComposeUpstreamVersion(compose) == compose[4]

\* upstreamVersion with the environment taking precedence over the compose.
upstreamVersion_envFirst ==
    IF env # Unset THEN env ELSE parseComposeUpstreamVersion(composeForDev)

\* parseComposeUpstreamVersion(composeForDev) || process.env.UPSTREAM_VERSION
upstreamVersion ==
    IF parseComposeUpstreamVersion(composeForDev) # Unset
    THEN parseComposeUpstreamVersion(composeForDev)
    ELSE env

\* if (upstreamVersion) manifest.upstreamVersion = upstreamVersion:
\* the manifest object as the tasks see it.
manifestForRelease ==
    IF upstreamVersion # Unset
    THEN [manifest EXCEPT !.upstreamVersion = upstreamVersion]
    ELSE manifest

\* The manifest file written for a manifest object.
ManifestFile(m) ==
    <<"manifest">> \o m.name \o <<"@">> \o m.version \o <<"^">> \o m.upstreamVersion

ManifestContent == ManifestFile(manifestForRelease)

\* The task list returned by buildAndUpload, in order.
Task(title, idx) == [title |-> title, idx |-> idx]

BuildTasks ==
    IF declared
    THEN [i \in 1..Len(architectures) |-> Task("Build architecture", i)]
    ELSE << Task("Build with compose", 0) >>

UploadTask ==
    IF uploadToSwarm THEN Task("Upload release to Swarm", 0)
                     ELSE Task("Upload release to IPFS", 0)

\* TaskList with the upload task placed before the build tasks.
TaskList_uploadFirst ==
    << Task("Create release dir", 0), Task("Copy files and validate", 0), UploadTask >>
    \o BuildTasks
    \o << Task("Save upload results", 0) >>

TaskList ==
    << Task("Create release dir", 0), Task("Copy files and validate", 0) >>
    \o BuildTasks
    \o << UploadTask, Task("Save upload results", 0) >>

(* ------------------------ external collaborators --------------------- *)

\* The content address a backend gives a directory: a function of the
\* backend and of the directory's contents.
AddressOf(backend, fs) == <<backend, fs>>

\* The container builder (buildWithBuildx, buildWithCompose): on success the
\* archive is at destPath; an archive already there is reused as it is.
\* A failed or timed-out build leaves the directory as it was.
BuilderResult(fs, destPath, arch, outcome) ==
    IF outcome = "ARCHIVED" /\ ~existsSync(fs, destPath)
    THEN writeFile(fs, destPath, ImageOf(arch))
    ELSE fs

BuildOutcomes == {"ARCHIVED", "TIMED_OUT", "FAILED"}

BuildErrorOf(outcome) == IF outcome = "TIMED_OUT" THEN "BuildTimeoutError" ELSE "BuildError"

Call(fn, arg) == [fn |-> fn, arg |-> arg]
\* A call of the container builder, with the outcome it signalled.
BuildCall(fn, dest, outcome) == [fn |-> fn, arg |-> dest, outcome |-> outcome]
Event(ev, task) == [ev |-> ev, task |-> task]

(* ------------------------------- Init -------------------------------- *)

\* Files the build directory may hold before the first run.
InitialCandidates(name) ==
    { pathJoin(buildDir, getImagePath(name, Version, linuxAmd64)),
      pathJoin(buildDir, getImagePath(name, Version, linuxArm64)),
      pathJoin(buildDir, getLegacyImagePath(name, Version)),
      pathJoin(buildDir, getImagePath(name, OldVersion, linuxAmd64)) }

NoPrev ==
    [outcome |-> "none", error |-> "none", files |-> <<>>, ctx |-> <<>>,
     uploadStartFiles |-> <<>>, trace |-> <<>>]

NoCtx == [releaseHash |-> Unset, releaseMultiHash |-> Unset]

\* buildAndUpload called on its own: no publish pipeline around it.
NoError == [name |-> "none", message |-> <<>>]
NoPublishCtx == [nextVersion |-> Unset, buildDir |-> Unset]
NotPublishing ==
    /\ type = "patch"
    /\ ethConnected = TRUE
    /\ apmLookup = [ok |-> TRUE, noRepo |-> FALSE, version |-> Version, message |-> <<>>]
    /\ githubRelease = FALSE
    /\ createNextGithubBranch = FALSE
    /\ publishPc = "idle"
    /\ publishPos = 0
    /\ publishError = NoError
    /\ publishCtx = NoPublishCtx
    /\ publishTrace = <<>>
    /\ publishCalls = <<>>

\* The state of a process that has not called buildAndUpload yet.
NewProcess ==
    /\ releaseRecord = <<>>
    /\ pc = "new"
    /\ pos = 0
    /\ error = "none"
    /\ composeForDev = Unset
    /\ ctx = NoCtx
    /\ run = 1
    /\ trace = <<>>
    /\ calls = <<>>
    /\ startFiles = files
    /\ uploadStartFiles = <<>>
    /\ prev = NoPrev

Init ==
    /\ manifest \in
         { [name |-> n, version |-> Version, image |-> im, avatar |-> av,
            hasArchitectures |-> ha, architectures |-> al,
            upstreamVersion |-> Unset] :
             n \in Names, im \in BOOLEAN, av \in BOOLEAN, ha \in BOOLEAN,
             al \in ArchLists }
    /\ ~manifest.hasArchitectures => manifest.architectures = <<>>
    /\ env = Unset
    /\ rootAssets \in RootAssetSets
    /\ composeOnDisk = <<"compose", "dev", "raw", Unset>>
    /\ uploadToSwarm \in BOOLEAN
    /\ skipUpload \in BOOLEAN
    /\ \E present \in SUBSET InitialCandidates(manifest.name) :
          files = [p \in present |-> Prev]
    /\ buildDirExists \in BOOLEAN
    /\ files # <<>> => buildDirExists
    /\ NewProcess
    /\ NotPublishing

\* A package with any combination of the three upstream versions, a valid
\* manifest and no build directory.
InitUpstream ==
    /\ manifest \in
         { [name |-> <<"f", "o", "o">>, version |-> Version, image |-> FALSE,
            avatar |-> FALSE, hasArchitectures |-> ha, architectures |-> al,
            upstreamVersion |-> m] :
             ha \in BOOLEAN, al \in {<<>>, <<linuxAmd64, linuxArm64>>},
             m \in {Unset, LoadedUpstream} }
    /\ manifest.hasArchitectures <=> manifest.architectures # <<>>
    /\ env \in {Unset, EnvUpstream}
    /\ rootAssets = {}
    /\ \E c \in {Unset, ComposeUpstream} :
          composeOnDisk = <<"compose", "dev", "raw", c>>
    /\ uploadToSwarm \in BOOLEAN
    /\ skipUpload \in BOOLEAN
    /\ files = <<>>
    /\ buildDirExists = FALSE
    /\ NewProcess
    /\ NotPublishing

(* ------------------------------ actions ------------------------------ *)

CurrentTask == TaskList[pos]

AtTask(title) ==
    /\ pc = "running"
    /\ pos \in 1..Len(TaskList)
    /\ CurrentTask.title = title

\* The task completed: Listr goes on to the next task of the list.
Completed(events) ==
    /\ trace' = trace \o events
    /\ pos' = pos + 1
    /\ pc' = IF pos = Len(TaskList) THEN "done" ELSE "running"
    /\ error' = error

\* The task threw: Listr stops the list and the run rejects with the error.
Failed(events, err) ==
    /\ trace' = trace \o events
    /\ pos' = pos
    /\ pc' = "failed"
    /\ error' = err

\* buildAndUpload(...) itself, lines 55-110: reads the manifest and the
\* compose, throws a CliError on a forbidden manifest, else returns the tasks.
BuildAndUpload ==
    /\ pc = "new"
    /\ IF ConfigError
       THEN /\ pc' = "failed"
            /\ error' = "CliError"
            /\ UNCHANGED <<pos, composeForDev>>
       ELSE /\ pc' = "running"
            /\ pos' = 1
            /\ composeForDev' = composeOnDisk
            /\ error' = error
    /\ UNCHANGED <<config, publishVars, composeOnDisk, files, buildDirExists, releaseRecord, ctx,
                   run, trace, calls, startFiles, uploadStartFiles, prev>>

\* imagePaths with the declared names joined with buildDir, as the
\* undeclared branch does.
imagePaths_joined ==
    IF declared
    THEN { pathJoin(buildDir, getImagePath(manifest.name, manifest.version, architectures[i])) :
             i \in 1..Len(architectures) }
    ELSE { imagePathAmd }

\* architectures ? architectures.map(arch => getImagePath(...)) : [imagePathAmd]
imagePaths ==
    IF declared
    THEN { getImagePath(manifest.name, manifest.version, architectures[i]) :
             i \in 1..Len(architectures) }
    ELSE { imagePathAmd }

\* cleanFiles that deletes nothing.
cleanFiles_keepAll(fs) == fs

\* for (const filepath of buildFiles)
\*   if (!imagePaths.includes(filepath)) fs.unlinkSync(path.join(buildDir, filepath))
cleanFiles(fs) ==
    unlinkAll(fs, { pathJoin(buildDir, filepath) :
                      filepath \in { f \in readdirSync(fs) : f \notin imagePaths } })

\* Task 'Create release dir'
CreateReleaseDir ==
    /\ AtTask("Create release dir")
    /\ buildDirExists' = TRUE
    /\ files' = cleanFiles(files)
    /\ Completed(<<Event("start", CurrentTask), Event("done", CurrentTask)>>)
    /\ UNCHANGED <<config, publishVars, composeOnDisk, releaseRecord, composeForDev, ctx, run,
                   calls, startFiles, uploadStartFiles, prev>>

\* The copies made before validateManifest: avatar, release compose, manifest.
copyRequired(fs) ==
    writeFile(
        writeFile(
            writeFile(fs, avatarBuildPath, AvatarContent),
            pathJoin(buildDir, composeName), composeForRelease),
        pathJoin(buildDir, manifestName), ManifestContent)

\* for (const releaseFile of additionalFiles) { if (filePath) fs.copyFileSync(...) }
copyAdditional(fs) ==
    LET dest(i) == pathJoin(buildDir, additionalFiles[i])
    IN  [q \in (DOMAIN fs) \cup { dest(i) : i \in rootAssets } |->
            IF \E i \in rootAssets : q = dest(i)
            THEN AssetContent(CHOOSE i \in rootAssets : q = dest(i))
            ELSE fs[q]]

\* CopyFilesAndValidate with validateManifest called after the loop over
\* additionalFiles.
CopyFilesAndValidate_validateLast ==
    /\ AtTask("Copy files and validate")
    /\ composeOnDisk' = composeForBuild
    /\ files' = copyAdditional(copyRequired(files))
    /\ \E valid \in BOOLEAN :
         IF valid
         THEN Completed(<<Event("start", CurrentTask), Event("done", CurrentTask)>>)
         ELSE Failed(<<Event("start", CurrentTask), Event("fail", CurrentTask)>>,
                     "ValidationError")
    /\ UNCHANGED <<config, publishVars, buildDirExists, releaseRecord, composeForDev, ctx, run,
                   calls, startFiles, uploadStartFiles, prev>>

\* Task 'Copy files and validate'. valid is validateManifest's verdict on the
\* manifest in prerelease mode.
CopyFilesAndValidate ==
    /\ AtTask("Copy files and validate")
    /\ composeOnDisk' = composeForBuild
    /\ \E valid \in BOOLEAN :
         IF valid
         THEN /\ files' = copyAdditional(copyRequired(files))
              /\ Completed(<<Event("start", CurrentTask), Event("done", CurrentTask)>>)
         ELSE /\ files' = copyRequired(files)
              /\ Failed(<<Event("start", CurrentTask), Event("fail", CurrentTask)>>,
                        "ValidationError")
    /\ UNCHANGED <<config, publishVars, buildDirExists, releaseRecord, composeForDev, ctx, run,
                   calls, startFiles, uploadStartFiles, prev>>

\* destPath that is the linux/amd64 path for every architecture.
destPath_amdOnly(architecture) ==
    pathJoin(buildDir, getImagePath(manifest.name, manifest.version, linuxAmd64))

\* path.join(buildDir, getImagePath(name, version, architecture))
destPath(architecture) ==
    pathJoin(buildDir, getImagePath(manifest.name, manifest.version, architecture))

\* Build that goes on to the next task when the builder times out.
Build_ignoreTimeout(fn, arch, dest) ==
    /\ \E outcome \in BuildOutcomes :
         /\ calls' = Append(calls, BuildCall(fn, dest, outcome))
         /\ files' = BuilderResult(files, dest, arch, outcome)
         /\ IF outcome \in {"ARCHIVED", "TIMED_OUT"}
            THEN Completed(<<Event("start", CurrentTask), Event("done", CurrentTask)>>)
            ELSE Failed(<<Event("start", CurrentTask), Event("fail", CurrentTask)>>,
                        BuildErrorOf(outcome))
    /\ UNCHANGED <<config, publishVars, composeOnDisk, buildDirExists, releaseRecord, composeForDev,
                   ctx, run, startFiles, uploadStartFiles, prev>>

\* One build task: the builder is called with destPath and ends in one of its
\* three outcomes.
Build(fn, arch, dest) ==
    /\ \E outcome \in BuildOutcomes :
         /\ calls' = Append(calls, BuildCall(fn, dest, outcome))
         /\ files' = BuilderResult(files, dest, arch, outcome)
         /\ IF outcome = "ARCHIVED"
            THEN Completed(<<Event("start", CurrentTask), Event("done", CurrentTask)>>)
            ELSE Failed(<<Event("start", CurrentTask), Event("fail", CurrentTask)>>,
                        BuildErrorOf(outcome))
    /\ UNCHANGED <<config, publishVars, composeOnDisk, buildDirExists, releaseRecord, composeForDev,
                   ctx, run, startFiles, uploadStartFiles, prev>>

\* Task `Build architecture ${architecture}`: buildWithBuildx
BuildArchitecture ==
    /\ AtTask("Build architecture")
    /\ Build("buildWithBuildx", architectures[CurrentTask.idx],
             destPath(architectures[CurrentTask.idx]))

\* BuildWithCompose writing to the legacy path.
BuildWithCompose_legacyDest ==
    /\ AtTask("Build with compose")
    /\ Build("buildWithCompose", linuxAmd64, imagePathLegacy)

\* The tasks of buildWithCompose, with destPath: imagePathAmd
BuildWithCompose ==
    /\ AtTask("Build with compose")
    /\ Build("buildWithCompose", linuxAmd64, imagePathAmd)

\* skip: () => skipUpload
UploadSkipped ==
    /\ skipUpload
    /\ Completed(<<Event("skip", CurrentTask)>>)
    /\ UNCHANGED <<config, publishVars, composeOnDisk, files, buildDirExists, releaseRecord,
                   composeForDev, ctx, run, calls, startFiles, uploadStartFiles, prev>>

\* The upload call of either backend: the address of the directory, or a failure.
Upload(fn, backend, provider, fs) ==
    /\ uploadStartFiles' = files
    /\ files' = fs
    /\ calls' = Append(calls, Call(fn, provider))
    /\ \E ok \in BOOLEAN :
         IF ok
         THEN /\ ctx' = [ctx EXCEPT !.releaseHash = AddressOf(backend, fs)]
              /\ Completed(<<Event("start", CurrentTask), Event("done", CurrentTask)>>)
         ELSE /\ ctx' = ctx
              /\ Failed(<<Event("start", CurrentTask), Event("fail", CurrentTask)>>,
                        "UploadError")
    /\ UNCHANGED <<config, publishVars, composeOnDisk, buildDirExists, releaseRecord, composeForDev,
                   run, startFiles, prev>>

\* Task 'Upload release to Swarm'
UploadToSwarm ==
    /\ AtTask("Upload release to Swarm")
    /\ \/ UploadSkipped
       \/ /\ ~skipUpload
          /\ Upload("swarmAddDirFromFs", "swarm", swarmProvider, files)

\* copyLegacy that copies nothing.
copyLegacy_never(fs) == fs

\* if (fs.existsSync(imagePathAmd)) fs.copyFileSync(imagePathAmd, imagePathLegacy)
copyLegacy(fs) ==
    IF existsSync(fs, imagePathAmd)
    THEN writeFile(fs, imagePathLegacy, fs[imagePathAmd])
    ELSE fs

\* Task 'Upload release to IPFS'
UploadToIPFS ==
    /\ AtTask("Upload release to IPFS")
    /\ \/ UploadSkipped
       \/ /\ ~skipUpload
          /\ Upload("ipfsAddFromFs", "ipfs", ipfsProvider, copyLegacy(files))

\* recordTo with the two providers exchanged.
recordTo_swapped == IF uploadToSwarm THEN ipfsProvider ELSE swarmProvider

\* to: uploadToSwarm ? swarmProvider : ipfsProvider
recordTo == IF uploadToSwarm THEN swarmProvider ELSE ipfsProvider

\* addReleaseRecord({dir, version, hash, to})
addReleaseRecord(records, version, hash, to) ==
    [v \in (DOMAIN records) \cup {version} |->
        IF v = version THEN [hash |-> hash, to |-> to] ELSE records[v]]

\* SaveUploadResults that records the hash but never assigns ctx.releaseMultiHash.
SaveUploadResults_noMultiHash ==
    /\ AtTask("Save upload results")
    /\ ctx' = ctx
    /\ \E written \in BOOLEAN :
         IF written
         THEN /\ releaseRecord' =
                    addReleaseRecord(releaseRecord, manifest.version, ctx.releaseHash, recordTo)
              /\ \E pruned \in BOOLEAN :
                    calls' = calls \o << Call("addReleaseRecord", recordTo),
                                         Call("pruneCache", IF pruned THEN <<"ok">> ELSE <<"error">>) >>
              /\ Completed(<<Event("start", CurrentTask), Event("done", CurrentTask)>>)
         ELSE /\ releaseRecord' = releaseRecord
              /\ calls' = Append(calls, Call("addReleaseRecord", recordTo))
              /\ Failed(<<Event("start", CurrentTask), Event("fail", CurrentTask)>>,
                        "RecordError")
    /\ UNCHANGED <<config, publishVars, composeOnDisk, files, buildDirExists, composeForDev, run,
                   startFiles, uploadStartFiles, prev>>

\* SaveUploadResults without the try/catch around pruneCache: a pruning
\* failure rejects the task after the record was written.
SaveUploadResults_pruneThrows ==
    /\ AtTask("Save upload results")
    /\ \E written \in BOOLEAN, pruned \in BOOLEAN :
         /\ calls' = IF written
                     THEN calls \o << Call("addReleaseRecord", recordTo),
                                      Call("pruneCache", IF pruned THEN <<"ok">> ELSE <<"error">>) >>
                     ELSE Append(calls, Call("addReleaseRecord", recordTo))
         /\ releaseRecord' =
               IF written
               THEN addReleaseRecord(releaseRecord, manifest.version, ctx.releaseHash, recordTo)
               ELSE releaseRecord
         /\ ctx' = IF written THEN [ctx EXCEPT !.releaseMultiHash = ctx.releaseHash] ELSE ctx
         /\ IF written /\ pruned
            THEN Completed(<<Event("start", CurrentTask), Event("done", CurrentTask)>>)
            ELSE Failed(<<Event("start", CurrentTask), Event("fail", CurrentTask)>>,
                        IF written THEN "PruneError" ELSE "RecordError")
    /\ UNCHANGED <<config, publishVars, composeOnDisk, files, buildDirExists, composeForDev, run,
                   startFiles, uploadStartFiles, prev>>

\* Task 'Save upload results'. The record store persists or signals a write
\* failure; a pruneCache failure is caught inside the task.
SaveUploadResults ==
    /\ AtTask("Save upload results")
    /\ \E written \in BOOLEAN :
         IF written
         THEN /\ releaseRecord' =
                    addReleaseRecord(releaseRecord, manifest.version, ctx.releaseHash, recordTo)
              /\ ctx' = [ctx EXCEPT !.releaseMultiHash = ctx.releaseHash]
              /\ \E pruned \in BOOLEAN :
                    calls' = calls \o << Call("addReleaseRecord", recordTo),
                                         Call("pruneCache", IF pruned THEN <<"ok">> ELSE <<"error">>) >>
              /\ Completed(<<Event("start", CurrentTask), Event("done", CurrentTask)>>)
         ELSE /\ releaseRecord' = releaseRecord
              /\ ctx' = ctx
              /\ calls' = Append(calls, Call("addReleaseRecord", recordTo))
              /\ Failed(<<Event("start", CurrentTask), Event("fail", CurrentTask)>>,
                        "RecordError")
    /\ UNCHANGED <<config, publishVars, composeOnDisk, files, buildDirExists, composeForDev, run,
                   startFiles, uploadStartFiles, prev>>

\* The operator runs the pipeline again on the same package directory: the
\* build directory, the compose on disk and the release record are what the
\* previous run left; context and task list are new.
NewRun ==
    /\ pc \in {"done", "failed"}
    /\ run < MaxRuns
    /\ prev' = [outcome |-> pc, error |-> error, files |-> files, ctx |-> ctx,
                uploadStartFiles |-> uploadStartFiles, trace |-> trace]
    /\ run' = run + 1
    /\ pc' = "new"
    /\ pos' = 0
    /\ error' = "none"
    /\ composeForDev' = Unset
    /\ ctx' = NoCtx
    /\ trace' = <<>>
    /\ calls' = <<>>
    /\ startFiles' = files
    /\ uploadStartFiles' = <<>>
    /\ UNCHANGED <<config, publishVars, composeOnDisk, files, buildDirExists, releaseRecord>>

Next ==
    \/ BuildAndUpload
    \/ CreateReleaseDir
    \/ CopyFilesAndValidate
    \/ BuildArchitecture
    \/ BuildWithCompose
    \/ UploadToSwarm
    \/ UploadToIPFS
    \/ SaveUploadResults
    \/ NewRun

(* ----------------------- publishHanlder (params.ts) ------------------- *)

\* const releaseTypes = ["major", "minor", "patch"]
releaseTypes == {"major", "minor", "patch"}

\* The package directory of the publish command: the working directory.
dir == <<".">>

NOREPO == <<"N", "O", "R", "E", "P", "O">>

\* includes that tests only the start of the string.
includes_atStart(s, sub) == StartsWith(s, sub)

\* String.prototype.includes
includes(s, sub) ==
    \E i \in 1..(Len(s) - Len(sub) + 1) : SubSeq(s, i, i + Len(sub) - 1) = sub

\* The messages of the errors increaseFromApmVersion may reject with: those of
\* a registry that has no repository for the package, and the others.
NoRepoMessages ==
    { NOREPO,
      <<"E", "r", "r", ":", " ">> \o NOREPO \o <<" ", "f", "o", "o">> }
OtherMessages ==
    { <<>>,
      <<"t", "i", "m", "e", "o", "u", "t">>,
      <<"n", "o", "r", "e", "p", "o">>,
      <<"N", "O", "R", "E", "P">> }

ApmLookups ==
    { [ok |-> TRUE, noRepo |-> FALSE, version |-> Version, message |-> <<>>] }
    \cup { [ok |-> FALSE, noRepo |-> TRUE, version |-> Unset, message |-> m] :
             m \in NoRepoMessages }
    \cup { [ok |-> FALSE, noRepo |-> FALSE, version |-> Unset, message |-> m] :
             m \in OtherMessages }

\* getCurrentLocalVersion({dir}): the version of the manifest in dir.
getCurrentLocalVersion == manifest.version

\* `build_${nextVersion}`
buildDirName(nextVersion) == <<"b", "u", "i", "l", "d", "_">> \o nextVersion

\* The tasks of publishTasks that are enabled, in order.
PublishTasks ==
    << "Fetch current version from APM", "Build and upload", "Generate transaction" >>
    \o (IF githubRelease THEN << "Release on github" >> ELSE <<>>)
    \o (IF createNextGithubBranch THEN << "Start next release cycle" >> ELSE <<>>)

AtPublishTask(title) ==
    /\ publishPc = "running"
    /\ publishPos \in 1..Len(PublishTasks)
    /\ PublishTasks[publishPos] = title

PublishCompleted(title) ==
    /\ publishTrace' = publishTrace \o <<Event("start", title), Event("done", title)>>
    /\ publishPos' = publishPos + 1
    /\ publishPc' = IF publishPos = Len(PublishTasks) THEN "done" ELSE "running"
    /\ publishError' = publishError

PublishFailed(title, err) ==
    /\ publishTrace' = publishTrace \o <<Event("start", title), Event("fail", title)>>
    /\ publishPos' = publishPos
    /\ publishPc' = "failed"
    /\ publishError' = err

\* publishHanlder up to publishTasks.run(): the release type is checked and the
\* connection to the eth provider verified.
PublishHandler ==
    /\ publishPc = "new"
    /\ IF type = "" \/ type \notin releaseTypes
       THEN /\ publishPc' = "failed"
            /\ publishError' = [name |-> "YargsError", message |-> <<>>]
            /\ publishPos' = publishPos
       ELSE IF ~ethConnected
       THEN /\ publishPc' = "failed"
            /\ publishError' = [name |-> "EthConnectionError", message |-> <<>>]
            /\ publishPos' = publishPos
       ELSE /\ publishPc' = "running"
            /\ publishPos' = 1
            /\ publishError' = publishError
    /\ UNCHANGED <<buildVars, type, ethConnected, apmLookup, githubRelease,
                   createNextGithubBranch, publishCtx, publishTrace, publishCalls>>

\* Task 'Fetch current version from APM'
FetchCurrentVersion ==
    /\ AtPublishTask("Fetch current version from APM")
    /\ IF apmLookup.ok \/ includes(apmLookup.message, NOREPO)
       THEN LET nextVersion == IF apmLookup.ok THEN apmLookup.version
                               ELSE getCurrentLocalVersion
            IN /\ publishCtx' = [nextVersion |-> nextVersion,
                                 buildDir |-> pathJoin(dir, buildDirName(nextVersion))]
               /\ PublishCompleted("Fetch current version from APM")
       ELSE /\ publishCtx' = publishCtx
            /\ PublishFailed("Fetch current version from APM",
                             [name |-> "ApmError", message |-> apmLookup.message])
    /\ UNCHANGED <<buildVars, type, ethConnected, apmLookup, githubRelease,
                   createNextGithubBranch, publishCalls>>

\* Task 'Build and upload', while the nested list runs: buildAndUpload is
\* called with dir, buildDir, contentProvider, uploadTo and userTimeout, so
\* its uploadToSwarm and skipUpload are undefined and it has no swarm task.
BuildAndUploadNested ==
    /\ AtPublishTask("Build and upload")
    /\ publishCtx.buildDir = buildDir
    /\ ~uploadToSwarm /\ ~skipUpload
    /\ \/ BuildAndUpload
       \/ CreateReleaseDir
       \/ CopyFilesAndValidate
       \/ BuildArchitecture
       \/ BuildWithCompose
       \/ UploadToIPFS
       \/ SaveUploadResults

\* Task 'Build and upload', when the nested list has ended.
BuildAndUploadEnded ==
    /\ AtPublishTask("Build and upload")
    /\ pc \in {"done", "failed"}
    /\ IF pc = "done"
       THEN PublishCompleted("Build and upload")
       ELSE PublishFailed("Build and upload", [name |-> error, message |-> <<>>])
    /\ UNCHANGED <<buildVars, type, ethConnected, apmLookup, githubRelease,
                   createNextGithubBranch, publishCtx, publishCalls>>

\* A task that makes one call to a collaborator, which resolves or rejects.
PublishCall(title, fn, arg, errorName) ==
    /\ AtPublishTask(title)
    /\ publishCalls' = Append(publishCalls, Call(fn, arg))
    /\ \E resolved \in BOOLEAN :
          IF resolved THEN PublishCompleted(title)
          ELSE PublishFailed(title, [name |-> errorName, message |-> <<>>])
    /\ UNCHANGED <<buildVars, type, ethConnected, apmLookup, githubRelease,
                   createNextGithubBranch, publishCtx>>

\* Task 'Generate transaction'
GenerateTransaction ==
    PublishCall("Generate transaction", "generatePublishTx", ctx.releaseMultiHash,
                "TxError")

\* Task 'Release on github'
ReleaseOnGithub ==
    PublishCall("Release on github", "createGithubRelease", publishCtx.buildDir,
                "GithubError")

\* Task 'Start next release cycle'
StartNextReleaseCycle ==
    PublishCall("Start next release cycle", "createNextBranch", dir, "GithubError")

NextPublish ==
    \/ PublishHandler
    \/ FetchCurrentVersion
    \/ BuildAndUploadNested
    \/ BuildAndUploadEnded
    \/ GenerateTransaction
    \/ ReleaseOnGithub
    \/ StartNextReleaseCycle

\* One call of publishHanlder on a package with a valid manifest and no build
\* directory.
InitPublish ==
    /\ manifest \in
         { [name |-> <<"f", "o", "o">>, version |-> Version, image |-> FALSE,
            avatar |-> av, hasArchitectures |-> ha, architectures |-> al,
            upstreamVersion |-> Unset] :
             av \in BOOLEAN, ha \in BOOLEAN, al \in {<<>>, <<linuxAmd64, linuxArm64>>} }
    /\ manifest.hasArchitectures <=> manifest.architectures # <<>>
    /\ env = Unset
    /\ rootAssets = {}
    /\ composeOnDisk = <<"compose", "dev", "raw", Unset>>
    /\ uploadToSwarm = FALSE
    /\ skipUpload = FALSE
    /\ files = <<>>
    /\ buildDirExists = FALSE
    /\ NewProcess
    /\ type \in {"patch", "", "bogus"}
    /\ ethConnected \in BOOLEAN
    /\ apmLookup \in ApmLookups
    /\ githubRelease \in BOOLEAN
    /\ createNextGithubBranch \in BOOLEAN
    /\ publishPc = "new"
    /\ publishPos = 0
    /\ publishError = NoError
    /\ publishCtx = NoPublishCtx
    /\ publishTrace = <<>>
    /\ publishCalls = <<>>

Spec == Init /\ [][Next]_vars

SpecPublish == InitPublish /\ [][NextPublish]_vars

SpecUpstream == InitUpstream /\ [][Next]_vars

(* ============================= properties ============================ *)

Called(fn) == \E i \in 1..Len(calls) : calls[i].fn = fn
CallsOf(fn) == { i \in 1..Len(calls) : calls[i].fn = fn }
Happened(ev, task) == \E i \in 1..Len(trace) : trace[i] = Event(ev, task)

\* The architectures the run targets: the declared ones, else linux/amd64.
TargetArchs ==
    IF declared THEN { architectures[i] : i \in 1..Len(architectures) }
    ELSE { linuxAmd64 }

\* The expected image-archive file names of the run.
ExpectedNames ==
    { getImagePath(manifest.name, manifest.version, a) : a \in TargetArchs }

LegacyName == getLegacyImagePath(manifest.name, manifest.version)
AmdName == getImagePath(manifest.name, manifest.version, linuxAmd64)

\* The clean phase has just completed.
AfterClean == pc = "running" /\ pos = 2

BuildsDone ==
    \A i \in 1..Len(BuildTasks) : Happened("done", BuildTasks[i])

\* C1 (as claimed): with skipUpload set, a run that ends has completed the
\* create, copy and build stages, bypassed the upload, never invoked
\* addReleaseRecord, written no release record, and left ctx.releaseHash unset.
C1_SkipUploadWritesNoRecord ==
    (skipUpload /\ pc = "done") =>
        /\ Happened("done", Task("Create release dir", 0))
        /\ Happened("done", Task("Copy files and validate", 0))
        /\ BuildsDone
        /\ Happened("skip", UploadTask)
        /\ ~Called("swarmAddDirFromFs") /\ ~Called("ipfsAddFromFs")
        /\ ~Called("addReleaseRecord")
        /\ releaseRecord = <<>>
        /\ ctx.releaseHash = Unset

\* C2 (as claimed): with no architectures field, a successful run from an
\* empty build directory leaves exactly one image archive, under the legacy name.
C2_SingleLegacyArchive ==
    (~declared /\ pc = "done" /\ startFiles = <<>>) =>
        ImageArchives(files) = { LegacyName }

\* C2 (amended): with no architectures field, a successful run from an empty
\* build directory leaves the archive built by buildWithCompose under the
\* linux/amd64 name; the legacy-named file is there exactly when the IPFS
\* upload ran, as a copy of that archive; there is no other image archive.
C2_AmdArchiveAndLegacyCopy ==
    (~declared /\ pc = "done" /\ startFiles = <<>>) =>
        /\ ImageArchives(files) =
              { AmdName } \cup
              (IF ~uploadToSwarm /\ ~skipUpload THEN { LegacyName } ELSE {})
        /\ files[imagePathAmd] = ImageOf(linuxAmd64)
        /\ existsSync(files, imagePathLegacy) => files[imagePathLegacy] = files[imagePathAmd]
        /\ calls[1].fn = "buildWithCompose"
        /\ calls[1].arg = pathJoin(buildDir, AmdName)
        /\ ~Called("buildWithBuildx")

C2_Witness ==
    /\ ~declared /\ pc = "done" /\ startFiles = <<>> /\ run = 1
    /\ ~uploadToSwarm /\ ~skipUpload
    /\ Cardinality(ImageArchives(files)) = 2

\* C3 (as claimed): for a declared list of N architectures a successful run
\* ends with exactly N image archives, one per declared architecture, and no
\* other image archive file.
C3_ExactlyDeclaredArchives ==
    (declared /\ pc = "done") =>
        /\ ImageArchives(files) = ExpectedNames
        /\ Cardinality(ImageArchives(files)) = Len(architectures)

\* C3 (amended): for a declared list of N distinct architectures a successful
\* run ends with the N archives named getImagePath(name, version, arch), and
\* no other image archive except the legacy copy, which is present exactly
\* when the IPFS upload ran and linux/amd64 is declared.
C3_DeclaredArchivesAndLegacyCopy ==
    (declared /\ pc = "done") =>
        /\ ImageArchives(files) =
              ExpectedNames \cup
              (IF ~uploadToSwarm /\ ~skipUpload /\ linuxAmd64 \in TargetArchs
               THEN { LegacyName } ELSE {})
        /\ Cardinality(ExpectedNames) = Len(architectures)

C3_Witness ==
    /\ declared /\ pc = "done" /\ Len(architectures) = 2
    /\ ~uploadToSwarm /\ ~skipUpload
    /\ \E f \in ImageArchives(startFiles) : f \notin ExpectedNames
    /\ \E f \in ImageArchives(startFiles) : f \in ExpectedNames
    /\ Cardinality(ImageArchives(files)) = 3

\* C4 (as claimed): an archive already in the build directory under the name
\* of a target architecture is neither deleted nor rebuilt by the run, and
\* every other file that was in the build directory is deleted by the clean phase.
C4_Resumability ==
    /\ \A a \in TargetArchs :
          (pc \in {"running", "done", "failed"} /\ pos >= 2
              /\ existsSync(startFiles, destPath(a))) =>
             /\ existsSync(files, destPath(a))
             /\ files[destPath(a)] = startFiles[destPath(a)]
    /\ AfterClean =>
          \A p \in DOMAIN startFiles :
              p \notin { destPath(a) : a \in TargetArchs } => ~existsSync(files, p)

\* C5 (as claimed): right after 'Create release dir' the build directory holds
\* the initial files whose names are in the expected set, unchanged, and
\* nothing else.
C5_CleanPhase ==
    AfterClean =>
        /\ readdirSync(files) = readdirSync(startFiles) \cap ExpectedNames
        /\ \A p \in DOMAIN files : files[p] = startFiles[p]

\* C6: a complete run on the build directory left by a previous successful
\* run ends with the same set of file names in the build directory as that run
\* ended with, and with the same content address.
C6_Idempotence ==
    (run >= 2 /\ prev.outcome = "done" /\ pc = "done") =>
        /\ readdirSync(files) = readdirSync(prev.files)
        /\ ctx.releaseHash = prev.ctx.releaseHash

C6_Witness ==
    /\ run = 2 /\ prev.outcome = "done" /\ pc = "done"
    /\ ~skipUpload /\ declared /\ Len(architectures) = 2
    /\ ctx.releaseHash # Unset
    /\ prev.files # <<>>

\* The manifests C7 is about.
ForbiddenManifest ==
    \/ manifest.image = TRUE
    \/ manifest.avatar = TRUE
    \/ \E i \in 1..Len(manifest.name) : manifest.name[i] \in UpperCase

\* C7: a manifest with an image field, an avatar field or an uppercase letter
\* in its name makes buildAndUpload fail with a CliError before any task: no
\* run ever gets to a task, and nothing changes the build directory, the
\* compose of the package directory or the release record, and no builder,
\* backend or record call is made.
C7_FailFast ==
    /\ [](ForbiddenManifest =>
            /\ pc \in {"new", "failed"}
            /\ pc = "failed" => error = "CliError"
            /\ trace = <<>> /\ calls = <<>>)
    /\ [][ForbiddenManifest =>
            UNCHANGED <<files, buildDirExists, composeOnDisk, releaseRecord>>]_vars

C7_Witness ==
    /\ manifest.avatar /\ ~manifest.image /\ ~hasUpperCase(manifest.name)
    /\ pc = "failed" /\ error = "CliError" /\ run = 2
    /\ ~buildDirExists

\* The position of a task in the order the specification gives the stages.
StageRank(task) ==
    CASE task.title = "Create release dir" -> 1
      [] task.title = "Copy files and validate" -> 2
      [] task.title = "Build architecture" -> 2 + task.idx
      [] task.title = "Build with compose" -> 3
      [] task.title = "Upload release to Swarm" -> 10
      [] task.title = "Upload release to IPFS" -> 10
      [] task.title = "Save upload results" -> 11

\* The tasks a run of this configuration is made of.
ExpectedTasks ==
    { Task("Create release dir", 0), Task("Copy files and validate", 0),
      Task("Save upload results", 0) }
    \cup (IF declared
          THEN { Task("Build architecture", i) : i \in 1..Len(architectures) }
          ELSE { Task("Build with compose", 0) })
    \cup (IF uploadToSwarm THEN { Task("Upload release to Swarm", 0) }
                           ELSE { Task("Upload release to IPFS", 0) })

\* C8: a task starts (or is skipped) only when exactly the tasks before it in
\* the stage order have completed or been skipped; a task that fails is the
\* last event of its run; only the upload is ever skipped, and only under
\* skipUpload. So the upload starts only after every build completed and the
\* save only after the upload completed or was skipped.
C8_StrictSequencing ==
    /\ \A j \in 1..Len(trace) :
          /\ trace[j].task \in ExpectedTasks
          /\ trace[j].ev \in {"start", "skip"} =>
                { trace[i].task : i \in { k \in 1..(j - 1) : trace[k].ev \in {"done", "skip"} } }
                    = { t \in ExpectedTasks : StageRank(t) < StageRank(trace[j].task) }
          /\ trace[j].ev \in {"done", "fail"} =>
                j > 1 /\ trace[j - 1] = Event("start", trace[j].task)
          /\ trace[j].ev = "fail" => j = Len(trace) /\ pc = "failed"
          /\ trace[j].ev = "skip" => skipUpload /\ StageRank(trace[j].task) = 10
    /\ pc = "done" =>
          { trace[i].task : i \in { k \in 1..Len(trace) : trace[k].ev \in {"done", "skip"} } }
              = ExpectedTasks

C8_Witness ==
    /\ pc = "failed" /\ error = "BuildError"
    /\ declared /\ Len(architectures) = 2
    /\ Happened("done", Task("Build architecture", 1))
    /\ Happened("fail", Task("Build architecture", 2))

\* C9 (as claimed): when the backend fails the upload, the run aborts with
\* that error after a single upload call, no release record is written and
\* ctx.releaseMultiHash stays unset, the image archives that were there when
\* the upload task started are still there, and the next run keeps them
\* through its clean phase.
C9_UploadFailure ==
    /\ (pc = "failed" /\ error = "UploadError") =>
          /\ Cardinality(CallsOf("swarmAddDirFromFs") \cup CallsOf("ipfsAddFromFs")) = 1
          /\ ~Called("addReleaseRecord")
          /\ ctx.releaseMultiHash = Unset
          /\ \A p \in DOMAIN uploadStartFiles :
                existsSync(files, p) /\ files[p] = uploadStartFiles[p]
    /\ (prev.outcome = "failed" /\ prev.error = "UploadError"
           /\ pc = "running" /\ pos >= 2) =>
          \A p \in DOMAIN prev.uploadStartFiles :
              IsImageArchive(p) => existsSync(files, p)

\* C10: at most one upload call is made in a run; it goes to the swarm backend
\* with swarmProvider when uploadToSwarm is set and to the IPFS backend with
\* ipfsProvider when it is not, and none is made under skipUpload; the backend
\* identifier given to addReleaseRecord and stored in the record is the
\* provider of the backend the configuration selects.
C10_ExclusiveBackend ==
    LET uploads == CallsOf("swarmAddDirFromFs") \cup CallsOf("ipfsAddFromFs")
        uploadPassed == Happened("done", UploadTask) \/ Happened("fail", UploadTask)
    IN  /\ Cardinality(uploads) <= 1
        /\ skipUpload => uploads = {}
        /\ \A i \in CallsOf("swarmAddDirFromFs") :
              uploadToSwarm /\ calls[i].arg = swarmProvider
        /\ \A i \in CallsOf("ipfsAddFromFs") :
              ~uploadToSwarm /\ calls[i].arg = ipfsProvider
        /\ (uploadPassed /\ uploadToSwarm) => Called("swarmAddDirFromFs")
        /\ (uploadPassed /\ ~uploadToSwarm) => Called("ipfsAddFromFs")
        /\ \A i \in CallsOf("addReleaseRecord") :
              /\ calls[i].arg = (IF uploadToSwarm THEN swarmProvider ELSE ipfsProvider)
              /\ \A u \in uploads : calls[i].arg = calls[u].arg
        /\ (pc = "done" /\ Called("addReleaseRecord")) =>
              releaseRecord[manifest.version].to =
                 (IF uploadToSwarm THEN swarmProvider ELSE ipfsProvider)

C10_Witness ==
    /\ pc = "done" /\ uploadToSwarm /\ ~skipUpload
    /\ Called("swarmAddDirFromFs") /\ Called("addReleaseRecord")
    /\ releaseRecord[manifest.version].to = swarmProvider

SaveTask == Task("Save upload results", 0)

\* C11: a pruneCache failure in 'Save upload results' is caught inside the
\* task: the task completes, the run ends in success, and the release record
\* and ctx.releaseMultiHash written before the pruning stay as written.
C11_PruneFailureTolerated ==
    Called("pruneCache") =>
        /\ pc = "done" /\ error = "none"
        /\ trace[Len(trace)] = Event("done", SaveTask)
        /\ manifest.version \in DOMAIN releaseRecord
        /\ releaseRecord[manifest.version] = [hash |-> ctx.releaseHash, to |-> recordTo]
        /\ ctx.releaseMultiHash = ctx.releaseHash

C11_Witness ==
    /\ \E i \in 1..Len(calls) : calls[i] = Call("pruneCache", <<"error">>)
    /\ pc = "done" /\ ~skipUpload
    /\ ctx.releaseMultiHash # Unset

BuildErrors == {"BuildError", "BuildTimeoutError"}

\* The build task that failed in a run whose trace is tr.
IsBuildTask(task) == task.title \in {"Build architecture", "Build with compose"}

\* The architecture a build task builds.
ArchOfTask(task) ==
    IF task.title = "Build architecture" THEN architectures[task.idx] ELSE linuxAmd64

\* C12: when the builder signals a timeout the run fails with the timeout
\* error at the build task of that architecture, which is the last event and
\* the last call of the run: no further build, upload or save starts; and the
\* destination path of that architecture holds no file the timed-out build
\* wrote: it is as it was when the build task started (absent, or the
\* complete archive that was already there).
C12_TimeoutBoundary ==
    \A k \in 1..Len(calls) :
        (calls[k].fn \in {"buildWithBuildx", "buildWithCompose"}
            /\ calls[k].outcome = "TIMED_OUT") =>
            LET last == trace[Len(trace)]
                dest == destPath(ArchOfTask(last.task))
            IN  /\ pc = "failed" /\ error = "BuildTimeoutError"
                /\ k = Len(calls) /\ calls[k].arg = dest
                /\ last.ev = "fail" /\ IsBuildTask(last.task)
                /\ ~Happened("start", UploadTask) /\ ~Happened("skip", UploadTask)
                /\ ~Happened("start", SaveTask)
                /\ \A i \in 1..Len(BuildTasks) :
                      StageRank(BuildTasks[i]) > StageRank(last.task) =>
                          ~Happened("start", BuildTasks[i])
                /\ existsSync(files, dest) =>
                      /\ declared /\ existsSync(startFiles, dest)
                      /\ files[dest] = startFiles[dest]

C12_Witness ==
    /\ pc = "failed" /\ error = "BuildTimeoutError"
    /\ declared /\ Len(architectures) = 2
    /\ trace[Len(trace)] = Event("fail", Task("Build architecture", 1))
    /\ ~existsSync(files, destPath(architectures[1]))

\* The archives of the build tasks that completed in a run with trace tr.
BuiltPaths(tr) ==
    { destPath(ArchOfTask(tr[i].task)) :
        i \in { k \in 1..Len(tr) : tr[k].ev = "done" /\ IsBuildTask(tr[k].task) } }

\* C13: when the build of a declared architecture fails or times out, the
\* archives of the builds that completed before it are in the build directory
\* when the run aborts, and the next run keeps them, unchanged, through its
\* clean phase and to its end.
C13_PartialFailureKeepsArchives ==
    /\ (declared /\ pc = "failed" /\ error \in BuildErrors) =>
          \A p \in BuiltPaths(trace) : existsSync(files, p)
    /\ (declared /\ prev.outcome = "failed" /\ prev.error \in BuildErrors
           /\ pc \in {"running", "done", "failed"} /\ pos >= 2) =>
          \A p \in BuiltPaths(prev.trace) :
              existsSync(files, p) /\ files[p] = prev.files[p]

C13_Witness ==
    /\ declared /\ Len(architectures) = 2
    /\ prev.outcome = "failed" /\ prev.error = "BuildTimeoutError"
    /\ BuiltPaths(prev.trace) # {}
    /\ AfterClean
    /\ \A p \in BuiltPaths(prev.trace) : existsSync(files, p)

UploadPassed == Happened("done", UploadTask) \/ Happened("fail", UploadTask)

C17_ValidationFailureAborts ==
    (pc = "failed" /\ error = "ValidationError") =>
        /\ trace = << Event("start", Task("Create release dir", 0)),
                      Event("done", Task("Create release dir", 0)),
                      Event("start", Task("Copy files and validate", 0)),
                      Event("fail", Task("Copy files and validate", 0)) >>
        /\ calls = <<>>
        /\ ctx = NoCtx
        /\ \A i \in 1..Len(additionalFiles) :
              ~existsSync(files, pathJoin(buildDir, additionalFiles[i]))

C17_Witness ==
    /\ pc = "failed" /\ error = "ValidationError"
    /\ rootAssets = 1..Len(additionalFiles)
    /\ existsSync(files, avatarBuildPath)
    /\ run = 2 /\ prev.outcome = "done"

\* C20: on the IPFS path, once the upload call has been made, the legacy file
\* exists in the build directory exactly when the linux/amd64 archive does,
\* and then has that archive's content, whatever the build directory held
\* before the run; the address returned is that of this directory.
C20_LegacyNeverStale ==
    (~uploadToSwarm /\ Called("ipfsAddFromFs")) =>
        /\ existsSync(files, pathJoin(buildDir, LegacyName))
              <=> existsSync(files, pathJoin(buildDir, AmdName))
        /\ existsSync(files, pathJoin(buildDir, LegacyName)) =>
              files[pathJoin(buildDir, LegacyName)] = files[pathJoin(buildDir, AmdName)]
        /\ Happened("done", UploadTask) => ctx.releaseHash = AddressOf("ipfs", files)

C20_Witness ==
    /\ ~uploadToSwarm /\ Called("ipfsAddFromFs") /\ run = 1
    /\ existsSync(startFiles, pathJoin(buildDir, LegacyName))
    /\ ~existsSync(startFiles, pathJoin(buildDir, AmdName))
    /\ existsSync(files, pathJoin(buildDir, LegacyName))
    /\ files[pathJoin(buildDir, LegacyName)] = ImageOf(linuxAmd64)

\* The archive of architecture arch in the build directory, named as the
\* release names it.
ArchivePath(arch) ==
    pathJoin(buildDir, getImagePath(manifest.name, manifest.version, arch))

\* The paths at which a step changed the build directory.
ChangedPaths ==
    { p \in (DOMAIN files) \cup (DOMAIN files') :
         \/ p \notin DOMAIN files
         \/ p \notin DOMAIN files'
         \/ files[p] # files'[p] }

\* getImagePath separates the architectures, and none of its names is the
\* legacy name.
NamesSeparateArchitectures ==
    \A n \in Names, v \in {Version, OldVersion} :
        \A a \in Architectures :
            /\ getImagePath(n, v, a) # getLegacyImagePath(n, v)
            /\ \A b \in Architectures :
                  a # b => getImagePath(n, v, a) # getImagePath(n, v, b)

\* C16: for a fixed name and version getImagePath gives distinct
\* architectures distinct file names, none equal to the legacy name; the k-th
\* per-architecture build is called with the path of the k-th declared
\* architecture and changes the build directory at that path only, so the
\* archive at an architecture's path is never the image of another one.
C16_ArchiveNaming ==
    /\ [](/\ NamesSeparateArchitectures
          /\ \A k \in 1..Len(calls) :
                calls[k].fn = "buildWithBuildx" =>
                    calls[k].arg = ArchivePath(manifest.architectures[k])
          /\ \A a \in Architectures :
                existsSync(files, ArchivePath(a)) =>
                    files[ArchivePath(a)] \in {Prev, ImageOf(a)})
    /\ [][(pc = "running" /\ pos \in 1..Len(TaskList)
              /\ TaskList[pos].title = "Build architecture") =>
            ChangedPaths \subseteq {ArchivePath(manifest.architectures[TaskList[pos].idx])}]_vars

C16_Witness ==
    /\ manifest.hasArchitectures
    /\ manifest.architectures = <<linuxArm64, linuxAmd64>>
    /\ Len(calls) >= 2
    /\ calls[1].fn = "buildWithBuildx" /\ calls[2].fn = "buildWithBuildx"
    /\ ~existsSync(startFiles, ArchivePath(linuxArm64))
    /\ ~existsSync(startFiles, ArchivePath(linuxAmd64))
    /\ existsSync(files, ArchivePath(linuxArm64))
    /\ existsSync(files, ArchivePath(linuxAmd64))
    /\ files[ArchivePath(linuxArm64)] = ImageOf(linuxArm64)
    /\ files[ArchivePath(linuxAmd64)] = ImageOf(linuxAmd64)

\* The upstream version the package's compose declares, and the manifest file
\* of the build directory.
DeclaredUpstream == composeOnDisk[4]
ManifestPath == pathJoin(buildDir, manifestName)

\* The manifest file of a package with upstream version u.
ManifestWithUpstream(u) ==
    <<"manifest">> \o manifest.name \o <<"@">> \o manifest.version \o <<"^">> \o u

\* C18: the manifest written to the build directory carries the upstream
\* version the compose declares when it declares one, otherwise the one of
\* the environment when that is set, otherwise the one the manifest was loaded
\* with; the three cases are exclusive, so the compose wins over the
\* environment.
C18_UpstreamInjection ==
    existsSync(files, ManifestPath) =>
        /\ DeclaredUpstream # Unset =>
              files[ManifestPath] = ManifestWithUpstream(DeclaredUpstream)
        /\ (DeclaredUpstream = Unset /\ env # Unset) =>
              files[ManifestPath] = ManifestWithUpstream(env)
        /\ (DeclaredUpstream = Unset /\ env = Unset) =>
              files[ManifestPath] = ManifestWithUpstream(manifest.upstreamVersion)

C18_Witness ==
    /\ DeclaredUpstream = ComposeUpstream
    /\ env = EnvUpstream
    /\ manifest.upstreamVersion = LoadedUpstream
    /\ Happened("done", Task("Copy files and validate", 0))
    /\ existsSync(files, ManifestPath)
    /\ files[ManifestPath] = ManifestWithUpstream(ComposeUpstream)

PublishHappened(ev, title) ==
    \E i \in 1..Len(publishTrace) : publishTrace[i] = Event(ev, title)

LaterPublishTasks ==
    { "Build and upload", "Generate transaction", "Release on github",
      "Start next release cycle" }

\* C19: when increaseFromApmVersion fails because the registry has no
\* repository, the first task does not fail: it ends with nextVersion the
\* local version and buildDir build_<that version> under dir; when it fails
\* for another reason publishHanlder rejects with that error at the first
\* task, and no later task starts: no event, no call, and buildAndUpload is
\* never entered.
C19_VersionLookupFallback ==
    /\ (~apmLookup.ok /\ apmLookup.noRepo) =>
          /\ ~PublishHappened("fail", "Fetch current version from APM")
          /\ publishError.name # "ApmError"
          /\ PublishHappened("done", "Fetch current version from APM") =>
                /\ publishCtx.nextVersion = manifest.version
                /\ publishCtx.buildDir =
                      IF dir = <<".">> THEN <<"b", "u", "i", "l", "d", "_">> \o manifest.version
                      ELSE dir \o <<"/", "b", "u", "i", "l", "d", "_">> \o manifest.version
    /\ (~apmLookup.ok /\ ~apmLookup.noRepo) =>
          /\ ~PublishHappened("done", "Fetch current version from APM")
          /\ \A t \in LaterPublishTasks, ev \in {"start", "done", "fail"} :
                ~PublishHappened(ev, t)
          /\ publishCalls = <<>>
          /\ pc = "new" /\ trace = <<>> /\ calls = <<>> /\ files = startFiles
          /\ publishCtx = NoPublishCtx
          /\ publishPc \in {"new", "running", "failed"}
          /\ publishPc = "running" => publishPos = 1
          /\ (publishPc = "failed" /\ type \in {"major", "minor", "patch"} /\ ethConnected) =>
                publishError = [name |-> "ApmError", message |-> apmLookup.message]

C19_Witness ==
    /\ ~apmLookup.ok /\ apmLookup.noRepo
    /\ apmLookup.message # <<"N", "O", "R", "E", "P", "O">>
    /\ publishCtx.nextVersion = manifest.version
    /\ publishPc = "done"
    /\ githubRelease /\ createNextGithubBranch
    /\ Len(publishCalls) = 3
    /\ ctx.releaseMultiHash # Unset

====
